---- MODULE Spec2Model ----
(***************************************************************************)
(* Model of the grove logo generators (docs/*.py):                         *)
(*   - the recursive branch synthesizers draw_branch (create_dock_logo.py) *)
(*     and draw_organic_branch (create_dock_logo_v2.py);                   *)
(*   - the supersample wrappers create_supersampled / _v2;                 *)
(*   - the reference tracer trace_reference / clean_and_resize             *)
(*     (trace_logo.py).                                                    *)
(* Python floats are modelled as exact rationals [n, d] (d > 0, lowest     *)
(* terms); pixel coordinates of branch end points are integers in          *)
(* thousandths of a pixel, with sin/cos taken from a table rounded to      *)
(* three decimals.                                                         *)
(***************************************************************************)
EXTENDS Integers, Sequences, FiniteSets, TLC

VARIABLES
    \* ---- branch synthesizer
    variant,      \* which synthesizer runs: "draw_branch" | "draw_organic_branch"
    max_depth,    \* the max_depth argument
    branch_data,  \* the branch table: depth -> [spread, length_factor, width_factor]
    top,          \* the arguments of the top-level call
    stack,        \* pending calls (head = next call executed), Python's call order
    segments,     \* log of draw.line + draw.ellipse pairs, in drawing order
    calls,        \* log of every call entered: its arguments, the segment of its
                  \* caller (parent) and the segment it drew (seg, 0 for none)
    bpc,          \* "idle" | "running" | "done"
    run,          \* 1 during the first call, 2 during its repetition
    firstRun,     \* the logs of the first call once it is repeated, <<>> before
    \* ---- supersample wrappers
    wrapper,      \* which wrapper is called
    target_size,  \* target_size argument (shared with clean_and_resize)
    supersample,  \* supersample argument
    stroke_width, \* kwargs.get('stroke_width') as a tuple: <<n>>, or <<>> when absent
    synthCalls,   \* log of calls of the synthesis function
    canvases,     \* sizes of the canvases made by Image.new, in order
    drew,         \* TRUE once a draw.* operation was performed on a canvas
    primitives,   \* the draw operations of create_simple_tree, in drawing order
                  \* (<<>> for the other synthesis functions: drew records theirs)
    sresult,      \* size (w, h) of the returned image, <<>> while there is none
    serror,       \* "none" or the exception that left the wrapper
    spc,          \* "idle" | "synth" | "resize" | "done"
    \* ---- tracer
    ref,          \* the reference image: [w, h, marks], marks = luminance of the
                  \* pixels that are not white (every other pixel is 255)
    padding,      \* padding argument of clean_and_resize (a rational)
    binary,       \* the thresholded mask (NoImage before the trace)
    traced,       \* the RGBA trace (NoImage before the trace)
    bbox,         \* img.getbbox() of the trace: <<l, u, r, b>>, or <<>> for None
    canvas,       \* the padded canvas of clean_and_resize: [size, x, y], or NoCanvas
    cleaned,      \* the image clean_and_resize returned, NoImage while there is none
    terror,       \* "none" or the exception that left the tracer
    light,        \* the image create_light_version returned, NoImage while none
    tpc,          \* "idle" | "traced" | "done" | "lit"
    \* ---- a batch of renders (the loops of the main() functions)
    batch,        \* the items: [kind, size, color] of each render, with its position
                  \* (pc), the image object it created (img) and the one it
                  \* returned (out), 0 while there is none
    heap          \* the image objects alive: [size, ops], ops = what was drawn

branchVars == <<variant, max_depth, branch_data, top, stack, segments, calls, bpc,
                run, firstRun>>
superVars  == <<wrapper, supersample, stroke_width, synthCalls, canvases, drew, primitives,
                sresult, serror, spc>>
traceVars  == <<ref, padding, binary, traced, bbox, canvas, cleaned, terror, light, tpc>>
batchVars  == <<batch, heap>>
vars == <<branchVars, superVars, traceVars, batchVars, target_size>>

----------------------------------------------------------------------------
(* Bounds of the model                                                     *)

MaxDepthBound == 2
MaxTarget == 3
MaxSupersample == 3
MaxStroke == 3
HalfW == 11
ImgH == 13
MaxMarked == 2
MaxBatch == 2
MaxBatchSize == 2

\* supersample=4, the default of every wrapper
DefaultSupersample == 4

----------------------------------------------------------------------------
(* Exact rationals standing for Python floats                              *)

Abs(i) == IF i < 0 THEN -i ELSE i

RECURSIVE GCD(_, _)
GCD(a, b) == IF b = 0 THEN a ELSE GCD(b, a % b)

Rat(n, d) ==
    LET g == GCD(Abs(n), d) IN
    IF n = 0 THEN [n |-> 0, d |-> 1] ELSE [n |-> n \div g, d |-> d \div g]

RMul(a, b) == Rat(a.n * b.n, a.d * b.d)
RLt(a, b)  == a.n * b.d < b.n * a.d
RInt(i)    == [n |-> i, d |-> 1]
RAdd(a, b) == Rat(a.n * b.d + b.n * a.d, a.d * b.d)
RSub(a, b) == Rat(a.n * b.d - b.n * a.d, a.d * b.d)
RMax(a, b) == IF RLt(a, b) THEN b ELSE a

\* Python's int(x): truncation toward zero
IntTrunc(a) == IF a.n >= 0 THEN a.n \div a.d ELSE -((-a.n) \div a.d)

\* floor(n * m / d) without forming n * m
MulDiv(n, m, d) == (n \div d) * m + ((n % d) * m) \div d

----------------------------------------------------------------------------
(* math.sin / math.cos of an angle in degrees, in thousandths              *)

SinTable ==
    << 0, 17, 35, 52, 70, 87, 105, 122, 139, 156, 174, 191, 208,
       225, 242, 259, 276, 292, 309, 326, 342, 358, 375, 391, 407, 423,
       438, 454, 469, 485, 500, 515, 530, 545, 559, 574, 588, 602, 616,
       629, 643, 656, 669, 682, 695, 707, 719, 731, 743, 755, 766, 777,
       788, 799, 809, 819, 829, 839, 848, 857, 866, 875, 883, 891, 899,
       906, 914, 921, 927, 934, 940, 946, 951, 956, 961, 966, 970, 974,
       978, 982, 985, 988, 990, 993, 995, 996, 998, 999, 999, 1000, 1000 >>

SinMilli(deg) ==
    LET a == deg % 360 IN
    IF a <= 90 THEN SinTable[a + 1]
    ELSE IF a <= 180 THEN SinTable[180 - a + 1]
    ELSE IF a <= 270 THEN -SinTable[a - 180 + 1]
    ELSE -SinTable[360 - a + 1]

CosMilli(deg) == SinMilli(deg + 90)

----------------------------------------------------------------------------
(* Branch synthesizers: draw_branch and draw_organic_branch                *)

Variants == {"draw_branch", "draw_organic_branch"}

\* the guard with the depth test off by one
GuardOffByOne(v, f, md) ==
    IF v = "draw_branch"
    THEN f.depth > md + 1 \/ RLt(f.length, RInt(2))
    ELSE f.depth > md + 1 \/ RLt(f.length, RInt(3)) \/ RLt(f.width, RInt(1))

\* a guard that also consults how often the synthesizer ran before
GuardCountsRuns(v, f, md) ==
    IF v = "draw_branch"
    THEN f.depth > md \/ RLt(f.length, RInt(2)) \/ (run > 1 /\ f.depth > 0)
    ELSE \/ f.depth > md \/ RLt(f.length, RInt(3)) \/ RLt(f.width, RInt(1))
         \/ (run > 1 /\ f.depth > 0)

\* if depth > max_depth or length < 2: return
\* if depth > max_depth or length < 3 or width < 1: return
Guard(v, f, md) ==
    IF v = "draw_branch"
    THEN f.depth > md \/ RLt(f.length, RInt(2))
    ELSE f.depth > md \/ RLt(f.length, RInt(3)) \/ RLt(f.width, RInt(1))

\* the end point with the y axis pointing the wrong way
EndpointFlipped(start, angle, length) ==
    << start[1] + MulDiv(length.n, SinMilli(angle), length.d),
       start[2] + MulDiv(length.n, CosMilli(angle), length.d) >>

\* end_x = start[0] + length * sin(radians(angle))
\* end_y = start[1] - length * cos(radians(angle))
Endpoint(start, angle, length) ==
    << start[1] + MulDiv(length.n, SinMilli(angle), length.d),
       start[2] - MulDiv(length.n, CosMilli(angle), length.d) >>

\* the fallback of branch_data.get(depth, {...})
DefaultParams ==
    [spread |-> 40, length_factor |-> Rat(6, 10), width_factor |-> Rat(7, 10)]

\* a lookup that never consults the table
BranchParamsNoLookup(data, depth) == DefaultParams

\* params = branch_data.get(depth, default)
BranchParams(data, depth) ==
    IF depth \in DOMAIN data THEN data[depth] ELSE DefaultParams

\* a decay that divides by the factor instead of multiplying
LengthFactorInverted(v, data, depth) ==
    IF v = "draw_branch" THEN Rat(100, 65)
    ELSE Rat(BranchParams(data, depth).length_factor.d,
             BranchParams(data, depth).length_factor.n)

\* new_length = length * 0.65 ; new_length = length * params['length_factor']
LengthFactor(v, data, depth) ==
    IF v = "draw_branch" THEN Rat(65, 100) ELSE BranchParams(data, depth).length_factor

\* new_width = width * 0.7 ; new_width = width * params['width_factor']
WidthFactor(v, data, depth) ==
    IF v = "draw_branch" THEN Rat(7, 10) ELSE BranchParams(data, depth).width_factor

\* a left spread that grows like the right one
LeftSpreadAsRight(v, data, depth) ==
    IF v = "draw_branch" THEN 35 + depth * 5
    ELSE BranchParams(data, depth).spread + depth * 2

\* spread = 35 + depth * 5 ; left_spread = spread + (depth * 3)
LeftSpread(v, data, depth) ==
    IF v = "draw_branch" THEN 35 + depth * 5
    ELSE BranchParams(data, depth).spread + depth * 3

\* spread = 35 + depth * 5 ; right_spread = spread + (depth * 2)
RightSpread(v, data, depth) ==
    IF v = "draw_branch" THEN 35 + depth * 5
    ELSE BranchParams(data, depth).spread + depth * 2

\* cap_radius = width / 2 ; cap_r = width / 2.2
CapRadius(v, width) ==
    IF v = "draw_branch" THEN RMul(width, Rat(1, 2)) ELSE RMul(width, Rat(5, 11))

\* width=max(1, int(width))
LineWidth(width) == IF IntTrunc(width) > 1 THEN IntTrunc(width) ELSE 1

\* draw.line([start, end], ...) followed by draw.ellipse([end - r, end + r], ...)
Segment(v, f) ==
    [from   |-> f.start,
     to     |-> Endpoint(f.start, f.angle, f.length),
     angle  |-> f.angle,
     length |-> f.length,
     width  |-> f.width,
     line_width |-> LineWidth(f.width),
     cap_center |-> Endpoint(f.start, f.angle, f.length),
     cap_r  |-> CapRadius(v, f.width),
     depth  |-> f.depth]

\* the recursive call for the left sub-branch, made by the call that drew segment k
LeftChild(v, data, f, k) ==
    [start  |-> Endpoint(f.start, f.angle, f.length),
     angle  |-> f.angle - LeftSpread(v, data, f.depth),
     length |-> RMul(f.length, LengthFactor(v, data, f.depth)),
     width  |-> RMul(f.width, WidthFactor(v, data, f.depth)),
     depth  |-> f.depth + 1,
     parent |-> k]

\* the recursive call for the right sub-branch
RightChild(v, data, f, k) ==
    [start  |-> Endpoint(f.start, f.angle, f.length),
     angle  |-> f.angle + RightSpread(v, data, f.depth),
     length |-> RMul(f.length, LengthFactor(v, data, f.depth)),
     width  |-> RMul(f.width, WidthFactor(v, data, f.depth)),
     depth  |-> f.depth + 1,
     parent |-> k]

\* entry of the call log: call f drew segment k (0: it returned at the guard)
CallEntry(f, k) ==
    [start |-> f.start, angle |-> f.angle, length |-> f.length, width |-> f.width,
     depth |-> f.depth, parent |-> f.parent, seg |-> k]

\* ---- inputs of the top-level call
StartPoints == {<<100000, 200000>>}
TopAngles   == {0, -22, 25}
TopLengths  == {Rat(0, 1), Rat(1, 1), Rat(2, 1), Rat(5, 2), Rat(3, 1), Rat(50, 1)}
TopWidths   == {Rat(0, 1), Rat(1, 2), Rat(1, 1), Rat(10, 1)}
TableKeys   == {0, 1}
TableEntries ==
    {[spread |-> 30, length_factor |-> Rat(6, 10), width_factor |-> Rat(7, 10)],
     [spread |-> 28, length_factor |-> Rat(1, 1),  width_factor |-> Rat(1, 1)]}
Tables == UNION {[K -> TableEntries] : K \in SUBSET TableKeys}
NoTable == [k \in {} |-> DefaultParams]

IdleBranch ==
    /\ variant = "draw_branch"
    /\ max_depth = 0
    /\ branch_data = NoTable
    /\ top = [start |-> <<0, 0>>, angle |-> 0, length |-> RInt(0), width |-> RInt(0),
              depth |-> 0, parent |-> 0]
    /\ stack = <<>>
    /\ segments = <<>>
    /\ calls = <<>>
    /\ bpc = "off"
    /\ run = 1
    /\ firstRun = <<>>

InitBranch ==
    /\ variant \in Variants
    /\ max_depth \in 0..MaxDepthBound
    /\ branch_data \in (IF variant = "draw_branch" THEN {NoTable} ELSE Tables)
    /\ \E s \in StartPoints, a \in TopAngles, l \in TopLengths, w \in TopWidths :
          top = [start |-> s, angle |-> a, length |-> l, width |-> w,
                 depth |-> 0, parent |-> 0]
    /\ stack = <<>>
    /\ segments = <<>>
    /\ calls = <<>>
    /\ bpc = "idle"
    /\ run = 1
    /\ firstRun = <<>>

\* the caller's call at depth 0 (create_grove_dock_icon / _v2, or a test)
TopCall ==
    /\ bpc = "idle"
    /\ stack' = <<top>>
    /\ bpc' = "running"
    /\ UNCHANGED <<superVars, traceVars, batchVars, target_size, variant, max_depth, branch_data,
                   top, segments, calls, run, firstRun>>

\* a call whose guard holds: return at once
EnterReturn ==
    /\ bpc = "running"
    /\ stack # <<>>
    /\ Guard(variant, Head(stack), max_depth)
    /\ calls' = Append(calls, CallEntry(Head(stack), 0))
    /\ stack' = Tail(stack)
    /\ UNCHANGED <<superVars, traceVars, batchVars, target_size, variant, max_depth, branch_data,
                   top, segments, bpc, run, firstRun>>

\* a call that passes the guard: draw the segment and its cap, then recurse
\* left first, right second
EnterDraw ==
    /\ bpc = "running"
    /\ stack # <<>>
    /\ ~Guard(variant, Head(stack), max_depth)
    /\ LET f == Head(stack)
           k == Len(segments) + 1
       IN /\ segments' = Append(segments, Segment(variant, f))
          /\ calls' = Append(calls, CallEntry(f, k))
          /\ stack' = <<LeftChild(variant, branch_data, f, k),
                        RightChild(variant, branch_data, f, k)>> \o Tail(stack)
    /\ UNCHANGED <<superVars, traceVars, batchVars, target_size, variant, max_depth, branch_data,
                   top, bpc, run, firstRun>>

\* the top-level call returns to its caller
TopReturn ==
    /\ bpc = "running"
    /\ stack = <<>>
    /\ bpc' = "done"
    /\ UNCHANGED <<superVars, traceVars, batchVars, target_size, variant, max_depth, branch_data,
                   top, stack, segments, calls, run, firstRun>>

\* the caller repeats the call with the same arguments on a fresh canvas of
\* the same size (the generators render every icon size by the same calls)
CallAgain ==
    /\ bpc = "done"
    /\ run = 1
    /\ firstRun' = <<[segments |-> segments, calls |-> calls]>>
    /\ segments' = <<>>
    /\ calls' = <<>>
    /\ stack' = <<top>>
    /\ run' = 2
    /\ bpc' = "running"
    /\ UNCHANGED <<superVars, traceVars, batchVars, target_size, variant, max_depth, branch_data, top>>

NextBranch == TopCall \/ EnterReturn \/ EnterDraw \/ TopReturn \/ CallAgain

----------------------------------------------------------------------------
(* Supersample wrappers: create_logo.create_supersampled,                  *)
(* create_dock_logo.create_supersampled, create_supersampled_v2,           *)
(* create_crisp_menubar.create_supersampled                                *)

Wrappers == {"logo", "dock", "dock_v2", "crisp"}

\* the synthesis function each wrapper calls
SynthFn(w) ==
    CASE w = "logo"    -> "create_func"
      [] w = "dock"    -> "create_grove_dock_icon"
      [] w = "dock_v2" -> "create_grove_dock_icon_v2"
      [] w = "crisp"   -> "create_simple_tree"

\* a wrapper that forgets to scale the size
LargeSizeUnscaled(t, ss) == t

\* large_size = target_size * supersample
LargeSize(t, ss) == t * ss

\* large_stroke = kwargs.get('stroke_width', 2) * supersample
\* (the dock and menubar wrappers take and pass no stroke width)
LargeStroke(w, sw, ss) ==
    IF w = "logo" THEN <<(IF sw = <<>> THEN 2 ELSE sw[1]) * ss>> ELSE <<>>

\* Image.new('RGBA', (size, size), ...): Pillow rejects a negative size with
\* ValueError and accepts an empty (0 x 0) image (every release that has
\* Image.Resampling, which these scripts use, does)
ImageNewOutcomes(size) == IF size < 0 THEN {"ValueError"} ELSE {"ok"}

\* Image.resize((t, t), LANCZOS) of a from x from image: a copy when the size
\* is unchanged, ValueError when the requested size is not positive
ResizeOutcome(from, t) ==
    IF from = t THEN "ok" ELSE IF t <= 0 THEN "ValueError" ELSE "ok"

\* create_simple_tree(size, color, padding_ratio=0.12): the trunk line and the
\* crown ellipse it draws, as [op, xy, width] (width 0: a filled shape)
SimpleTree(size) ==
    LET pad == IntTrunc(RMul(RInt(size), Rat(12, 100)))  \* padding = int(size * padding_ratio)
        cx == size \div 2
        base_y == size - pad
        top_y == pad
        trunk_width == RMax(RInt(2), RMul(RInt(size), Rat(12, 100)))
        trunk_height == RMul(RInt(base_y - top_y), Rat(38, 100))
        trunk_top == RSub(RInt(base_y), trunk_height)
        crown_center_y == RSub(trunk_top, RMul(RInt(base_y - top_y), Rat(28, 100)))
        crown_radius == RMul(RInt(base_y - top_y), Rat(32, 100))
    IN << [op |-> "line",
           xy |-> <<RInt(cx), RInt(base_y), RInt(cx), trunk_top>>,
           width |-> IntTrunc(trunk_width)],
          [op |-> "ellipse",
           xy |-> <<RSub(RInt(cx), crown_radius), RSub(crown_center_y, crown_radius),
                    RAdd(RInt(cx), crown_radius), RAdd(crown_center_y, crown_radius)>>,
           width |-> 0] >>

IdleSuper ==
    /\ wrapper = "logo"
    /\ supersample = 1
    /\ stroke_width = <<>>
    /\ synthCalls = <<>>
    /\ canvases = <<>>
    /\ drew = FALSE
    /\ primitives = <<>>
    /\ sresult = <<>>
    /\ serror = "none"
    /\ spc = "off"

InitSuper ==
    /\ wrapper \in Wrappers
    /\ target_size \in -1..MaxTarget
    /\ supersample \in 1..MaxSupersample
    /\ stroke_width \in (IF wrapper = "logo" THEN {<<>>} \cup {<<n>> : n \in 1..MaxStroke}
                         ELSE {<<>>})
    /\ synthCalls = <<>>
    /\ canvases = <<>>
    /\ drew = FALSE
    /\ primitives = <<>>
    /\ sresult = <<>>
    /\ serror = "none"
    /\ spc = "idle"

\* the wrapper scales its arguments and calls the synthesis function, whose
\* first statement is Image.new
CallSynth ==
    /\ spc = "idle"
    /\ LET large == LargeSize(target_size, supersample) IN
       /\ synthCalls' = Append(synthCalls,
              [fn |-> SynthFn(wrapper), size |-> large,
               stroke_width |-> LargeStroke(wrapper, stroke_width, supersample)])
       /\ \E o \in ImageNewOutcomes(large) :
             IF o = "ok"
             THEN /\ canvases' = Append(canvases, large)
                  /\ spc' = "synth"
                  /\ serror' = serror
             ELSE /\ canvases' = canvases
                  /\ spc' = "done"
                  /\ serror' = o
    /\ UNCHANGED <<branchVars, traceVars, batchVars, wrapper, target_size, supersample, stroke_width, drew,
                   primitives, sresult>>

\* the body of the synthesis function: draw.line / draw.ellipse / draw.polygon
\* on the canvas, then return img
SynthDraw ==
    /\ spc = "synth"
    /\ drew' = TRUE
    /\ primitives' = (IF wrapper = "crisp"
                      THEN SimpleTree(LargeSize(target_size, supersample))
                      ELSE <<>>)
    /\ spc' = "resize"
    /\ UNCHANGED <<branchVars, traceVars, batchVars, wrapper, target_size, supersample, stroke_width, synthCalls,
                   canvases, sresult, serror>>

\* return large_img.resize((target_size, target_size), LANCZOS)
SuperResize ==
    /\ spc = "resize"
    /\ IF ResizeOutcome(LargeSize(target_size, supersample), target_size) = "ok"
       THEN /\ sresult' = <<target_size, target_size>>
            /\ serror' = serror
       ELSE /\ sresult' = sresult
            /\ serror' = "ValueError"
    /\ spc' = "done"
    /\ UNCHANGED <<branchVars, traceVars, batchVars, wrapper, target_size, supersample, stroke_width, synthCalls,
                   canvases, drew, primitives>>

NextSuper == CallSynth \/ SynthDraw \/ SuperResize

----------------------------------------------------------------------------
(* Images: [w, h, px] with px a function on the pixel coordinates          *)

Coords(w, h) == (0..(w - 1)) \X (0..(h - 1))

Transparent == <<0, 0, 0, 0>>

\* no image (yet)
NoImage == [w |-> -1, h |-> -1, px |-> <<>>]

\* Image.new(mode, (w, h), fill)
NewImage(w, h, fill) == [w |-> w, h |-> h, px |-> [c \in Coords(w, h) |-> fill]]

\* img.crop((l, u, r, b)): the pixels l <= x < r, u <= y < b
Crop(img, box) ==
    [w  |-> box[3] - box[1],
     h  |-> box[4] - box[2],
     px |-> [c \in Coords(box[3] - box[1], box[4] - box[2]) |->
                img.px[<<c[1] + box[1], c[2] + box[2]>>]]]

Min(a, b) == IF a < b THEN a ELSE b
Max(a, b) == IF a > b THEN a ELSE b

\* the set of pixels getbbox counts: those with a non-zero alpha
Foreground(img) == {c \in DOMAIN img.px : img.px[c][4] > 0}

SetMin(S) == CHOOSE m \in S : \A e \in S : m <= e
SetMax(S) == CHOOSE m \in S : \A e \in S : m >= e

\* a bounding box with inclusive right and lower edges
GetBBoxInclusive(img) ==
    LET fg == Foreground(img) IN
    IF fg = {} THEN <<>>
    ELSE << SetMin({c[1] : c \in fg}), SetMin({c[2] : c \in fg}),
            SetMax({c[1] : c \in fg}), SetMax({c[2] : c \in fg}) >>

\* img.getbbox(): (left, upper, right, lower) with right and lower just outside
\* the region, or None (here <<>>) when the image has no such pixel
GetBBox(img) ==
    LET fg == Foreground(img) IN
    IF fg = {} THEN <<>>
    ELSE << SetMin({c[1] : c \in fg}), SetMin({c[2] : c \in fg}),
            SetMax({c[1] : c \in fg}) + 1, SetMax({c[2] : c \in fg}) + 1 >>

\* one channel of canvas.paste(src, (x, y), mask): blend by the mask's alpha
Blend(s, d, a) == (s * a + d * (255 - a) + 127) \div 255

\* canvas.paste(src, (x, y), src): src blended onto canvas through its own
\* alpha channel, clipped to the canvas
Paste(cv, src, x, y) ==
    [w  |-> cv.w,
     h  |-> cv.h,
     px |-> [c \in DOMAIN cv.px |->
               LET sc == <<c[1] - x, c[2] - y>> IN
               IF sc \in DOMAIN src.px
               THEN LET sp == src.px[sc]
                        dp == cv.px[c]
                    IN <<Blend(sp[1], dp[1], sp[4]), Blend(sp[2], dp[2], sp[4]),
                         Blend(sp[3], dp[3], sp[4]), Blend(sp[4], dp[4], sp[4])>>
               ELSE cv.px[c]]]

\* sum of alpha, or of alpha * channel k, over the box x0..x1, y0..y1
RECURSIVE SumRow(_, _, _, _, _), SumBox(_, _, _, _, _, _)
SumRow(img, k, y, x0, x1) ==
    IF x0 > x1 THEN 0
    ELSE LET p == img.px[<<x0, y>>] IN
         (IF k = 4 THEN p[4] ELSE p[4] * p[k]) + SumRow(img, k, y, x0 + 1, x1)
SumBox(img, k, x0, x1, y0, y1) ==
    IF y0 > y1 THEN 0
    ELSE SumRow(img, k, y0, x0, x1) + SumBox(img, k, x0, x1, y0 + 1, y1)

\* the source pixels an output pixel i of n covers when s pixels are resampled
BoxLo(i, s, n) == (i * s) \div n
BoxHi(i, s, n) == Max(BoxLo(i, s, n), ((i + 1) * s - 1) \div n)

\* img.resize((t, t), LANCZOS), for t > 0 and a non-empty img: a copy when the
\* size is unchanged; otherwise every output pixel is a filtered combination
\* of the (alpha-premultiplied) source pixels it covers, taken here as their
\* mean
Resize(img, t) ==
    IF img.w = t /\ img.h = t THEN img
    ELSE [w  |-> t,
          h  |-> t,
          px |-> [c \in Coords(t, t) |->
                    LET x0 == BoxLo(c[1], img.w, t)
                        x1 == BoxHi(c[1], img.w, t)
                        y0 == BoxLo(c[2], img.h, t)
                        y1 == BoxHi(c[2], img.h, t)
                        n  == (x1 - x0 + 1) * (y1 - y0 + 1)
                        sa == SumBox(img, 4, x0, x1, y0, y1)
                    IN IF sa = 0 THEN Transparent
                       ELSE << SumBox(img, 1, x0, x1, y0, y1) \div sa,
                               SumBox(img, 2, x0, x1, y0, y1) \div sa,
                               SumBox(img, 3, x0, x1, y0, y1) \div sa,
                               sa \div n >>]]

----------------------------------------------------------------------------
(* Reference tracer: trace_reference and clean_and_resize                  *)

\* gray = left_half.convert('L'): luminance of pixel c of the reference
LumAt(r, c) == IF c \in DOMAIN r.marks THEN r.marks[c] ELSE 255

\* left_half = ref.crop((0, 0, width // 2, height)), as a luminance image
LeftHalfGray(r) ==
    [w  |-> r.w \div 2,
     h  |-> r.h,
     px |-> [c \in Coords(r.w \div 2, r.h) |-> LumAt(r, c)]]

\* a threshold that takes the cutoff itself as foreground
ThresholdInclusive(p) == IF p <= 128 THEN 255 ELSE 0

\* threshold = 128 ; lambda p: 255 if p < threshold else 0
Threshold(p) == IF p < 128 THEN 255 ELSE 0

\* binary = gray.point(...)
Binarize(gray) ==
    [w |-> gray.w, h |-> gray.h, px |-> [c \in DOMAIN gray.px |-> Threshold(gray.px[c])]]

\* result = Image.new('RGBA', binary.size, (0,0,0,0)), then
\* result_pixels[x, y] = (0, 0, 0, 255) wherever pixels[x, y] == 255
TraceResult(bin) ==
    [w  |-> bin.w,
     h  |-> bin.h,
     px |-> [c \in DOMAIN bin.px |->
               IF bin.px[c] = 255 THEN <<0, 0, 0, 255>> ELSE Transparent]]

\* a canvas side that multiplies by (1 - 2 * padding) instead of dividing
PaddedSizeShrinks(max_dim, p) ==
    LET den == p.d - 2 * p.n IN
    IF den > 0 THEN (max_dim * den) \div p.d
    ELSE -((max_dim * (-den)) \div p.d)

\* padded_size = int(max_dim / (1 - 2 * padding)), for 1 - 2 * padding # 0
PaddedSize(max_dim, p) ==
    LET den == p.d - 2 * p.n IN
    IF den > 0 THEN (max_dim * p.d) \div den
    ELSE -((max_dim * p.d) \div (-den))

\* x = (padded_size - cw) // 2 ; y = (padded_size - ch) // 2
PasteOffset(padded_size, cdim) == (padded_size - cdim) \div 2

NoCanvas == [size |-> -1, x |-> 0, y |-> 0]

\* outcome of the final .resize((target_size, target_size), LANCZOS)
ResizeStep(img, t, box, cv) ==
    IF img.w = 0 \/ img.h = 0
    THEN \* resampling an empty image
         IF t < 0 THEN {[bbox |-> box, canvas |-> cv, result |-> NoImage, error |-> "ValueError"]}
         ELSE {[bbox |-> box, canvas |-> cv, result |-> NewImage(t, t, Transparent),
                error |-> "none"],
               [bbox |-> box, canvas |-> cv, result |-> NoImage, error |-> "ValueError"]}
    ELSE IF t <= 0
    THEN {[bbox |-> box, canvas |-> cv, result |-> NoImage, error |-> "ValueError"]}
    ELSE {[bbox |-> box, canvas |-> cv, result |-> Resize(img, t), error |-> "none"]}

\* an empty trace treated as a failure
EmptyTraceRaises(img, t) ==
    {[bbox |-> <<>>, canvas |-> NoCanvas, result |-> NoImage, error |-> "ValueError"]}

\* the path of an empty trace (bbox is None):
\* return img.resize((target_size, target_size), LANCZOS)
EmptyTraceOutcomes(img, t) == ResizeStep(img, t, <<>>, NoCanvas)

\* clean_and_resize(img, target_size, padding): the set of ways the call can end
CleanAndResizeOutcomes(img, t, p) ==
    LET box == GetBBox(img) IN
    IF box = <<>>
    THEN EmptyTraceOutcomes(img, t)
    ELSE LET cropped == Crop(img, box)
             cw == cropped.w
             ch == cropped.h
             max_dim == Max(cw, ch)
         IN IF p.d - 2 * p.n = 0
            THEN {[bbox |-> box, canvas |-> NoCanvas, result |-> NoImage,
                   error |-> "ZeroDivisionError"]}
            ELSE LET padded_size == PaddedSize(max_dim, p)
                     x == PasteOffset(padded_size, cw)
                     y == PasteOffset(padded_size, ch)
                     cv == [size |-> padded_size, x |-> x, y |-> y]
                 IN UNION { IF o = "ok"
                            THEN ResizeStep(Paste(NewImage(padded_size, padded_size,
                                                           Transparent), cropped, x, y),
                                            t, box, cv)
                            ELSE {[bbox |-> box, canvas |-> NoCanvas, result |-> NoImage,
                                   error |-> o]}
                            : o \in ImageNewOutcomes(padded_size) }

\* create_light_version: a new transparent image of the same size; a pixel
\* with alpha > 0 becomes white with the same alpha
LightVersionOpaque(dark_img) ==
    [w |-> dark_img.w, h |-> dark_img.h,
     px |-> [c \in DOMAIN dark_img.px |->
                IF dark_img.px[c][4] > 0 THEN <<255, 255, 255, 255>> ELSE Transparent]]

LightVersion(dark_img) ==
    [w |-> dark_img.w, h |-> dark_img.h,
     px |-> [c \in DOMAIN dark_img.px |->
                IF dark_img.px[c][4] > 0
                THEN <<255, 255, 255, dark_img.px[c][4]>>
                ELSE Transparent]]

\* ---- inputs
MarkPositions == {5, 10, HalfW + 5} \X {5, 12}
MarkLums == {127, 128}
Paddings == {Rat(-1, 10), Rat(0, 1), Rat(2, 25), Rat(1, 4), Rat(1, 2), Rat(3, 5)}

\* sizes (w, h) of the reference image: a wide one, and one whose left half is
\* a square of the target size
RefSizes(t) ==
    {<<2 * HalfW, ImgH>>, <<2 * HalfW + 1, ImgH>>}
        \cup (IF t >= 1 THEN {<<2 * t, t>>} ELSE {})

\* where the reference image may have pixels that are not white
RefMarkPositions(d) ==
    IF d[2] = ImgH THEN MarkPositions ELSE Coords(d[1] \div 2, d[2])

IdleTrace ==
    /\ ref = [w |-> 0, h |-> 0, marks |-> <<>>]
    /\ padding = Rat(0, 1)
    /\ binary = NoImage
    /\ traced = NoImage
    /\ bbox = <<>>
    /\ canvas = NoCanvas
    /\ cleaned = NoImage
    /\ terror = "none"
    /\ light = NoImage
    /\ tpc = "off"

InitTrace ==
    /\ target_size \in -1..MaxTarget
    /\ padding \in Paddings
    /\ \E d \in RefSizes(target_size) : \E S \in SUBSET RefMarkPositions(d) :
          /\ Cardinality(S) <= MaxMarked
          /\ \E m \in [S -> MarkLums] : ref = [w |-> d[1], h |-> d[2], marks |-> m]
    /\ binary = NoImage
    /\ traced = NoImage
    /\ bbox = <<>>
    /\ canvas = NoCanvas
    /\ cleaned = NoImage
    /\ terror = "none"
    /\ light = NoImage
    /\ tpc = "idle"

\* traced, binary = trace_reference()
TraceReference ==
    /\ tpc = "idle"
    /\ binary' = Binarize(LeftHalfGray(ref))
    /\ traced' = TraceResult(Binarize(LeftHalfGray(ref)))
    /\ tpc' = "traced"
    /\ UNCHANGED <<branchVars, superVars, batchVars, ref, target_size, padding, bbox, canvas, cleaned, terror, light>>

\* dark = clean_and_resize(traced, size, padding=...)
CleanAndResize ==
    /\ tpc = "traced"
    /\ \E o \in CleanAndResizeOutcomes(traced, target_size, padding) :
          /\ bbox' = o.bbox
          /\ canvas' = o.canvas
          /\ cleaned' = o.result
          /\ terror' = o.error
    /\ tpc' = "done"
    /\ UNCHANGED <<branchVars, superVars, batchVars, ref, target_size, padding, binary, traced, light>>

\* light = create_light_version(dark), reached only when clean_and_resize
\* returned an image
CreateLightVersion ==
    /\ tpc = "done"
    /\ terror = "none"
    /\ light' = LightVersion(cleaned)
    /\ tpc' = "lit"
    /\ UNCHANGED <<branchVars, superVars, batchVars, ref, target_size, padding, binary, traced,
                   bbox, canvas, cleaned, terror>>

NextTrace == TraceReference \/ CleanAndResize \/ CreateLightVersion

----------------------------------------------------------------------------
(* A batch of renders: create_crisp_menubar.create_supersampled(size, color) *)
(* and trace_logo.clean_and_resize(traced, size, padding=0.08), each working *)
(* on the image objects it creates; the traced image is shared by the        *)
(* clean_and_resize calls, which only read it                                *)

BatchKinds == {"tree", "trace"}
Colors == {"black", "white"}

\* a draw operation as kept in an image object
Op(name, xy, width, color, src) ==
    [op |-> name, xy |-> xy, width |-> width, color |-> color,
     src_size |-> src.size, src |-> src.ops]

NoSource == [size |-> 0, ops |-> <<>>]

\* the traced image handed to every clean_and_resize call of the batch: a
\* silhouette that fills its HalfW x HalfW frame
TracedObject == [size |-> HalfW, ops |-> <<Op("trace", <<>>, 0, "black", NoSource)>>]

\* size of the canvas an item creates with Image.new
CanvasSize(it) ==
    IF it.kind = "tree" THEN LargeSize(it.size, DefaultSupersample)
    ELSE PaddedSize(TracedObject.size, Rat(8, 100))

\* Image.new(...): a new object, never one that exists already
NewObject(h) == Len(h) + 1

\* an item that draws on the first canvas of the batch instead of its own
FirstCanvas(it) == NewObject(<<TracedObject>>)

\* draw = ImageDraw.Draw(img) ; canvas.paste(...): the object an item draws on
DrawTarget(it) == it.img

\* the operation an item performs at its position: the trunk line and the
\* crown ellipse of create_simple_tree, or the paste of the crop of the traced
\* image (read at that moment) at the centring offset
DrawOp(it, h) ==
    CASE it.pc = "line" ->
            LET p == SimpleTree(CanvasSize(it))[1]
            IN Op(p.op, p.xy, p.width, it.color, NoSource)
      [] it.pc = "ellipse" ->
            LET p == SimpleTree(CanvasSize(it))[2]
            IN Op(p.op, p.xy, p.width, it.color, NoSource)
      [] it.pc = "paste" ->
            LET x == PasteOffset(CanvasSize(it), h[1].size)
            IN Op("paste", <<RInt(x), RInt(x)>>, 0, "", h[1])

AfterNew(it)  == IF it.kind = "tree" THEN "line" ELSE "paste"
AfterDraw(it) == IF it.pc = "line" THEN "ellipse" ELSE "resize"

Items == [kind : BatchKinds, size : 1..MaxBatchSize, color : Colors]

IdleBatch ==
    /\ batch = <<>>
    /\ heap = <<>>

InitBatch ==
    /\ \E its \in [1..MaxBatch -> Items] :
          batch = [i \in 1..MaxBatch |->
                     [kind |-> its[i].kind, size |-> its[i].size, color |-> its[i].color,
                      pc |-> "start", img |-> 0, out |-> 0]]
    /\ heap = <<TracedObject>>

\* img = Image.new('RGBA', (size, size), (0, 0, 0, 0))
BatchNew ==
    /\ \E i \in DOMAIN batch :
          /\ batch[i].pc = "start"
          /\ heap' = Append(heap, [size |-> CanvasSize(batch[i]), ops |-> <<>>])
          /\ batch' = [batch EXCEPT ![i].img = NewObject(heap), ![i].pc = AfterNew(batch[i])]
    /\ UNCHANGED <<branchVars, superVars, traceVars, target_size>>

\* draw.line(...) ; draw.ellipse(...) ; canvas.paste(cropped, (x, y), cropped)
BatchDraw ==
    /\ \E i \in DOMAIN batch :
          /\ batch[i].pc \in {"line", "ellipse", "paste"}
          /\ heap' = [heap EXCEPT ![DrawTarget(batch[i])].ops =
                                     Append(@, DrawOp(batch[i], heap))]
          /\ batch' = [batch EXCEPT ![i].pc = AfterDraw(batch[i])]
    /\ UNCHANGED <<branchVars, superVars, traceVars, target_size>>

\* return large_img.resize((target_size, target_size), LANCZOS): a new image
\* computed from the item's canvas
BatchResize ==
    /\ \E i \in DOMAIN batch :
          /\ batch[i].pc = "resize"
          /\ heap' = Append(heap, [size |-> batch[i].size,
                                   ops |-> <<Op("resize", <<>>, 0, "", heap[batch[i].img])>>])
          /\ batch' = [batch EXCEPT ![i].out = NewObject(heap), ![i].pc = "done"]
    /\ UNCHANGED <<branchVars, superVars, traceVars, target_size>>

NextBatch == BatchNew \/ BatchDraw \/ BatchResize

----------------------------------------------------------------------------
(* Specifications: one per component; the other components stay idle       *)

BranchInit == InitBranch /\ IdleSuper /\ IdleTrace /\ IdleBatch /\ target_size = 0
SuperInit  == InitSuper /\ IdleBranch /\ IdleTrace /\ IdleBatch
TraceInit  == InitTrace /\ IdleBranch /\ IdleSuper /\ IdleBatch
BatchInit  == InitBatch /\ IdleBranch /\ IdleSuper /\ IdleTrace /\ target_size = 0

SpecBranch == BranchInit /\ [][NextBranch]_vars

\* the interpreter runs a started call to completion
SpecBranchFair == SpecBranch /\ WF_vars(NextBranch)

SpecSuper == SuperInit /\ [][NextSuper]_vars

SpecTrace == TraceInit /\ [][NextTrace]_vars

\* the renders of a batch, their steps interleaved in any order
SpecBatch == BatchInit /\ [][NextBatch]_vars

----------------------------------------------------------------------------
(* Properties of the branch synthesizers                                   *)

RECURSIVE Pow2(_)
Pow2(k) == IF k = 0 THEN 1 ELSE 2 * Pow2(k - 1)

Indices(q) == 1..Len(q)

\* the calls made by the call that drew segment k, in call order
ChildrenOf(k) == {i \in Indices(calls) : calls[i].parent = k}

\* the call that drew segment k
DrawerOf(k) == CHOOSE i \in Indices(calls) : calls[i].seg = k

DepthBounded ==
    /\ \A k \in Indices(segments) : segments[k].depth <= max_depth
    /\ Len(segments) <= Pow2(max_depth + 1) - 1

\* C1: for every max_depth >= 0, start length, width and table with decay
\* factors in (0,1], a top-level call at depth 0 terminates, never draws a
\* segment at a depth greater than max_depth, and draws at most
\* 2^(max_depth+1) - 1 segments.
C1_DepthTermination == []DepthBounded /\ <>(bpc = "done")

\* a run that drew the full tree of 2^(max_depth+1) - 1 segments
C1_Witness ==
    /\ bpc = "done"
    /\ max_depth >= 1
    /\ Len(segments) = Pow2(max_depth + 1) - 1

\* the three conditions the claim names, for the call c of variant v
StopCondition(v, c) ==
    \/ c.depth > max_depth
    \/ RLt(c.length, RInt(IF v = "draw_branch" THEN 2 ELSE 3))
    \/ RLt(c.width, RInt(1))

\* C2: in both variants a call with depth > max_depth, or length below the
\* variant's threshold (2 for draw_branch, 3 for draw_organic_branch), or
\* width below 1, draws nothing and makes no recursive call.
\* (every call but the top one is made by a call that drew: when the run is
\* over there are 1 + 2 * Len(segments) calls, none made by a stopped call)
C2_StopDrawsNothing ==
    /\ \A i \in Indices(calls) : StopCondition(variant, calls[i]) => calls[i].seg = 0
    /\ bpc = "done" => Len(calls) = 1 + 2 * Len(segments)

\* the same statement for draw_organic_branch alone, which the code satisfies
C2_OrganicStopDrawsNothing ==
    variant = "draw_organic_branch" => C2_StopDrawsNothing

\* the factors the code documents for the children of call c
ClaimedLengthFactor(c) ==
    IF variant = "draw_branch" THEN Rat(13, 20)
    ELSE IF c.depth \in DOMAIN branch_data THEN branch_data[c.depth].length_factor
    ELSE Rat(3, 5)
ClaimedWidthFactor(c) ==
    IF variant = "draw_branch" THEN Rat(7, 10)
    ELSE IF c.depth \in DOMAIN branch_data THEN branch_data[c.depth].width_factor
    ELSE Rat(7, 10)

\* the concrete call of the claim: start (100,200), angle 0, length 50,
\* width 10, max_depth 1, table {0: spread 30, 0.6, 0.7}
ScenarioInputs ==
    /\ variant = "draw_organic_branch"
    /\ max_depth = 1
    /\ top.start = <<100000, 200000>> /\ top.angle = 0
    /\ top.length = RInt(50) /\ top.width = RInt(10)
    /\ DOMAIN branch_data = {0}
    /\ branch_data[0] = [spread |-> 30, length_factor |-> Rat(3, 5),
                         width_factor |-> Rat(7, 10)]

ScenarioDrawn ==
    /\ Len(segments) = 3
    /\ segments[1].from = <<100000, 200000>> /\ segments[1].to = <<100000, 150000>>
    /\ \A k \in {2, 3} :
          /\ segments[k].from = <<100000, 150000>>
          /\ segments[k].length = RInt(30)
          /\ segments[k].width = RInt(7)
          /\ segments[k].depth = 1

\* C3: a call that passes the guard draws exactly one segment from start to
\* (start.x + length*sin(angle), start.y - length*cos(angle)) (straight up by
\* length for angle 0) and then makes exactly two child calls, both starting
\* at that end point with depth + 1, length * length_decay and
\* width * width_decay; the concrete call of the claim draws
\* (100,200)->(100,150), two children of length 30 and width 7, and nothing at
\* depth 2.
C3_SegmentAndChildren ==
    /\ \A k \in Indices(segments) :
          /\ Cardinality({i \in Indices(calls) : calls[i].seg = k}) = 1
          /\ LET c == calls[DrawerOf(k)]
                 g == segments[k]
             IN /\ g.from = c.start
                /\ g.length = c.length /\ g.angle = c.angle /\ g.depth = c.depth
                /\ g.to[1] = c.start[1]
                                + MulDiv(c.length.n, SinMilli(c.angle), c.length.d)
                /\ g.to[2] = c.start[2]
                                - MulDiv(c.length.n, CosMilli(c.angle), c.length.d)
                /\ c.angle = 0 /\ c.length.d = 1 =>
                      g.to = <<c.start[1], c.start[2] - 1000 * c.length.n>>
                /\ bpc = "done" =>
                      /\ Cardinality(ChildrenOf(k)) = 2
                      /\ \A j \in ChildrenOf(k) :
                            /\ calls[j].start = g.to
                            /\ calls[j].depth = c.depth + 1
                            /\ calls[j].length = RMul(c.length, ClaimedLengthFactor(c))
                            /\ calls[j].width = RMul(c.width, ClaimedWidthFactor(c))
    /\ \A i \in Indices(calls) : calls[i].seg # 0 => calls[i].seg \in Indices(segments)
    /\ bpc = "done" /\ ScenarioInputs => ScenarioDrawn

\* the concrete call of the claim has run to its end
C3_Witness == bpc = "done" /\ ScenarioInputs /\ Len(segments) = 3

\* C4: at a depth that is no key of the branch table draw_organic_branch uses
\* spread 40, length-decay 0.6 and width-decay 0.7 for the children of the
\* call; at a depth that is a key it uses that entry's values.
C4_DefaultParams ==
    variant = "draw_organic_branch" =>
        \A k \in Indices(segments) : \A j \in ChildrenOf(k) :
            LET c == calls[DrawerOf(k)]
                e == IF c.depth \in DOMAIN branch_data THEN branch_data[c.depth]
                     ELSE [spread |-> 40, length_factor |-> Rat(3, 5),
                           width_factor |-> Rat(7, 10)]
            IN /\ calls[j].length = RMul(c.length, e.length_factor)
               /\ calls[j].width = RMul(c.width, e.width_factor)
               /\ \/ calls[j].angle = c.angle - (e.spread + 3 * c.depth)
                  \/ calls[j].angle = c.angle + (e.spread + 2 * c.depth)

\* one call used a table entry that differs from the default, another call of
\* the same run fell back to the default
C4_Witness ==
    /\ variant = "draw_organic_branch"
    /\ bpc = "done"
    /\ \E k \in Indices(segments) :
          /\ segments[k].depth \in DOMAIN branch_data
          /\ branch_data[segments[k].depth].spread # 40
          /\ ChildrenOf(k) # {}
    /\ \E k \in Indices(segments) :
          /\ segments[k].depth \notin DOMAIN branch_data
          /\ ChildrenOf(k) # {}

----------------------------------------------------------------------------
(* Properties of the supersample wrappers                                  *)

\* C5: the wrapper calls the synthesis function exactly once, with
\* size = target_size * supersample and (create_logo.py, the one wrapper that
\* takes a stroke width) stroke width = stroke_width * supersample, and
\* returns an image of exactly target_size x target_size, for every positive
\* target_size and supersample.
C5_SupersampleScales ==
    /\ Len(synthCalls) <= 1
    /\ spc = "done" /\ target_size > 0 /\ supersample > 0 =>
          /\ Len(synthCalls) = 1
          /\ synthCalls[1].size = target_size * supersample
          /\ wrapper = "logo" =>
                synthCalls[1].stroke_width =
                    <<(IF stroke_width = <<>> THEN 2 ELSE stroke_width[1]) * supersample>>
          /\ serror = "none"
          /\ sresult = <<target_size, target_size>>

\* create_logo's wrapper returned, with a stroke width and a factor above 1
C5_Witness ==
    /\ spc = "done"
    /\ wrapper = "logo"
    /\ target_size >= 2 /\ supersample >= 2 /\ stroke_width = <<3>>
    /\ sresult = <<target_size, target_size>>

\* C6: with a non-positive target_size the wrapper fails (InvalidDimension)
\* before any canvas is created or any draw operation is performed; no render
\* ends in a partial-success state.  Any exception counts as the failure here.
C6_NonPositiveFailsFirst ==
    spc = "done" /\ target_size <= 0 =>
        /\ serror # "none"
        /\ canvases = <<>>
        /\ ~drew
        /\ sresult = <<>>

----------------------------------------------------------------------------
(* Properties of the tracer                                                *)

PaddingValid == ~RLt(padding, RInt(0)) /\ RLt(padding, Rat(1, 2))

\* C7: clean_and_resize fails (InvalidDimension) whenever the padding ratio is
\* outside [0, 0.5) or target_size <= 0, without returning an image.  Any
\* exception counts as the failure here.
C7_InvalidArgumentsFail ==
    tpc = "done" /\ (~PaddingValid \/ target_size <= 0) =>
        terror # "none" /\ cleaned = NoImage

\* C8: when the traced image has no foreground pixel (bbox is None),
\* clean_and_resize raises nothing and returns a fully transparent canvas of
\* exactly target_size x target_size (target_size a positive size).
C8_EmptyTraceFallback ==
    tpc = "done" /\ Foreground(traced) = {} /\ target_size > 0 =>
        /\ terror = "none"
        /\ cleaned.w = target_size /\ cleaned.h = target_size
        /\ DOMAIN cleaned.px = Coords(target_size, target_size)
        /\ \A c \in DOMAIN cleaned.px : cleaned.px[c][4] = 0

\* an empty trace of a reference that has pixels at the cutoff, resized
C8_Witness ==
    /\ tpc = "done"
    /\ Foreground(traced) = {}
    /\ \E c \in DOMAIN ref.marks : c[1] < ref.w \div 2
    /\ target_size >= 2
    /\ cleaned.w = target_size

\* C9: the mask has the dimensions of the image it is computed from, and a
\* pixel is foreground (mask 255, traced pixel (0,0,0,255)) iff its luminance
\* is < 128; luminance >= 128 (128 included) gives mask 0 and a fully
\* transparent traced pixel.
C9_ThresholdMask ==
    tpc # "idle" =>
        /\ binary.w = ref.w \div 2 /\ binary.h = ref.h
        /\ traced.w = binary.w /\ traced.h = binary.h
        /\ DOMAIN binary.px = Coords(ref.w \div 2, ref.h)
        /\ DOMAIN traced.px = DOMAIN binary.px
        /\ \A c \in DOMAIN binary.px :
              LET lum == IF c \in DOMAIN ref.marks THEN ref.marks[c] ELSE 255 IN
              IF lum < 128
              THEN binary.px[c] = 255 /\ traced.px[c] = <<0, 0, 0, 255>>
              ELSE binary.px[c] = 0 /\ traced.px[c] = <<0, 0, 0, 0>>

\* a trace with one pixel just below the cutoff and one exactly at it
C9_Witness ==
    /\ tpc = "traced"
    /\ \E c, e \in DOMAIN binary.px :
          /\ c \in DOMAIN ref.marks /\ ref.marks[c] = 127 /\ binary.px[c] = 255
          /\ e \in DOMAIN ref.marks /\ ref.marks[e] = 128 /\ binary.px[e] = 0

\* the foreground pixels of the mask
MaskForeground == {c \in DOMAIN binary.px : binary.px[c] = 255}

\* C10 as claimed: the bounding box is (min_x, min_y, max_x, max_y) of the
\* foreground pixels ((5,5,10,12) for foreground (5,5), (10,12)), and null for
\* an image with no foreground pixel.
C10_BBoxInclusive ==
    tpc = "done" =>
        IF MaskForeground = {} THEN bbox = <<>>
        ELSE bbox = << SetMin({c[1] : c \in MaskForeground}),
                       SetMin({c[2] : c \in MaskForeground}),
                       SetMax({c[1] : c \in MaskForeground}),
                       SetMax({c[2] : c \in MaskForeground}) >>

\* C10 as amended: the bounding box is (min_x, min_y, max_x + 1, max_y + 1),
\* right and lower edge just outside the foreground ((5,5,11,13) for
\* foreground (5,5), (10,12)), and null for an image with no foreground pixel.
C10_BBoxHalfOpen ==
    tpc = "done" =>
        /\ IF MaskForeground = {} THEN bbox = <<>>
           ELSE bbox = << SetMin({c[1] : c \in MaskForeground}),
                          SetMin({c[2] : c \in MaskForeground}),
                          SetMax({c[1] : c \in MaskForeground}) + 1,
                          SetMax({c[2] : c \in MaskForeground}) + 1 >>
        /\ MaskForeground = {<<5, 5>>, <<10, 12>>} => bbox = <<5, 5, 11, 13>>

\* the mask of the claim's example, boxed
C10_Witness ==
    /\ tpc = "done"
    /\ MaskForeground = {<<5, 5>>, <<10, 12>>}
    /\ bbox = <<5, 5, 11, 13>>

----------------------------------------------------------------------------
(* Claims C11 .. C20                                                        *)

\* C11: create_light_version returns an image of the same size in which every
\* pixel keeps the alpha of the dark image, and every pixel with alpha > 0 has
\* the RGB channels of white.
C11_LightKeepsAlpha ==
    tpc = "lit" =>
        /\ light.w = cleaned.w /\ light.h = cleaned.h
        /\ DOMAIN light.px = DOMAIN cleaned.px
        /\ \A c \in DOMAIN cleaned.px :
              /\ light.px[c][4] = cleaned.px[c][4]
              /\ cleaned.px[c][4] > 0 =>
                    <<light.px[c][1], light.px[c][2], light.px[c][3]>> = <<255, 255, 255>>

\* a light version of an image with a partly transparent (anti-aliased) pixel
\* and a fully transparent one
C11_Witness ==
    /\ tpc = "lit"
    /\ \E c \in DOMAIN cleaned.px :
          cleaned.px[c][4] > 0 /\ cleaned.px[c][4] < 255 /\ light.px[c][4] = cleaned.px[c][4]
    /\ \E c \in DOMAIN cleaned.px : cleaned.px[c][4] = 0

C14_DegenerateFailsFast ==
    (top.length.n <= 0 \/ top.width.n <= 0) => bpc # "done"

\* the two calls made by the call that drew segment k: left first, right second
LeftOf(k)  == calls[SetMin(ChildrenOf(k))]
RightOf(k) == calls[SetMax(ChildrenOf(k))]

\* C17: in draw_organic_branch the children of a call at depth d with table
\* spread s get the angles angle - (s + 3d) (left) and angle + (s + 2d)
\* (right): symmetric about the parent at depth 0, and at depth d >= 1 the
\* left child deviates by exactly d degrees more than the right child.
C17_AsymmetricSpread ==
    variant = "draw_organic_branch" /\ bpc = "done" =>
        \A k \in Indices(segments) :
            LET c == calls[DrawerOf(k)]
                d == c.depth
                s == IF d \in DOMAIN branch_data THEN branch_data[d].spread ELSE 40
                l == LeftOf(k)
                r == RightOf(k)
            IN /\ Cardinality(ChildrenOf(k)) = 2
               /\ l.angle = c.angle - (s + d * 3)
               /\ r.angle = c.angle + (s + d * 2)
               /\ d = 0 => c.angle - l.angle = r.angle - c.angle
               /\ d >= 1 => (c.angle - l.angle) - (r.angle - c.angle) = d

\* a call at depth 1 or deeper drew a segment and made its two child calls
C17_Witness ==
    /\ variant = "draw_organic_branch" /\ bpc = "done"
    /\ \E k \in Indices(segments) :
          /\ segments[k].depth >= 1
          /\ Cardinality(ChildrenOf(k)) = 2
          /\ (segments[k].angle - LeftOf(k).angle)
                - (RightOf(k).angle - segments[k].angle) = segments[k].depth

\* C19 as claimed: every segment drawn by draw_branch or draw_organic_branch is
\* capped by a circle centred on its end point with radius exactly width / 2.
C19_CapRadiusHalfWidth ==
    \A k \in Indices(segments) :
        /\ segments[k].cap_center = segments[k].to
        /\ segments[k].cap_r = RMul(segments[k].width, Rat(1, 2))

\* C20 as claimed: for a branch table with factors in (0,1], every child
\* call's length and width are strictly smaller than its parent's.
C20_StrictlyDecreasing ==
    variant = "draw_organic_branch" =>
        \A k \in Indices(segments) : \A j \in ChildrenOf(k) :
            /\ RLt(calls[j].length, segments[k].length)
            /\ RLt(calls[j].width, segments[k].width)

\* C20 as amended: for a branch table with factors in (0,1], no child call's
\* length or width exceeds its parent's; they are strictly smaller where the
\* factor used at the parent's depth is below 1 and equal where it is 1.
C20_NonIncreasing ==
    variant = "draw_organic_branch" =>
        \A k \in Indices(segments) : \A j \in ChildrenOf(k) :
            LET d  == segments[k].depth
                lf == IF d \in DOMAIN branch_data THEN branch_data[d].length_factor
                      ELSE Rat(3, 5)
                wf == IF d \in DOMAIN branch_data THEN branch_data[d].width_factor
                      ELSE Rat(7, 10)
            IN /\ ~RLt(segments[k].length, calls[j].length)
               /\ ~RLt(segments[k].width, calls[j].width)
               /\ RLt(lf, RInt(1)) => RLt(calls[j].length, segments[k].length)
               /\ RLt(wf, RInt(1)) => RLt(calls[j].width, segments[k].width)
               /\ lf = RInt(1) => calls[j].length = segments[k].length
               /\ wf = RInt(1) => calls[j].width = segments[k].width

\* one run with a parent whose children are strictly smaller (factor below 1)
\* and a parent whose children are exactly as long and wide (factor 1)
C20_Witness ==
    /\ variant = "draw_organic_branch" /\ bpc = "done"
    /\ \E k \in Indices(segments) : \E j \in ChildrenOf(k) :
          calls[j].length = segments[k].length /\ calls[j].width = segments[k].width
    /\ \E k \in Indices(segments) : \E j \in ChildrenOf(k) :
          RLt(calls[j].length, segments[k].length) /\ RLt(calls[j].width, segments[k].width)

\* width and height of the crop, from the bounding box of the trace
CropW == bbox[3] - bbox[1]
CropH == bbox[4] - bbox[2]

AlreadyClean ==
    /\ traced.w = target_size /\ traced.h = target_size
    /\ bbox # <<>>
    /\ PaddingValid
    /\ LET m   == Max(CropW, CropH)
           den == padding.d - 2 * padding.n
       IN /\ target_size * den <= m * padding.d
          /\ m * padding.d < (target_size + 1) * den
    /\ Abs((target_size - bbox[3]) - bbox[1]) <= 1
    /\ Abs((target_size - bbox[4]) - bbox[2]) <= 1

\* C15 as claimed: on an input that is already tightly cropped, centred and
\* padded at the target size, clean_and_resize returns that same image.
C15_IdempotentOnClean ==
    tpc = "done" /\ AlreadyClean => terror = "none" /\ cleaned = traced

\* what the code does guarantee: the same image comes back when the
\* foreground sits at the offsets the code itself pastes at,
\* ((t - w) // 2, (t - h) // 2)
C15_FloorCentredIdempotent ==
    tpc = "done" /\ AlreadyClean
        /\ bbox[1] = (target_size - CropW) \div 2
        /\ bbox[2] = (target_size - CropH) \div 2
    => terror = "none" /\ cleaned = traced /\ canvas.size = target_size

\* a list of draw operations with every coordinate and width multiplied by k
Scaled(prims, k) ==
    [i \in DOMAIN prims |->
        [op |-> prims[i].op,
         xy |-> [j \in DOMAIN prims[i].xy |-> RMul(prims[i].xy[j], RInt(k))],
         width |-> prims[i].width * k]]

\* C13 as claimed: every size-dependent quantity of a synthesis function is a
\* fraction of the working size, so rendering at size S * K draws the
\* primitives of the rendering at size S with every coordinate and dimension
\* multiplied by K (here: create_simple_tree, S = target_size, K = supersample).
C13_ScaleInvariant ==
    wrapper = "crisp" /\ spc = "done" /\ serror = "none" /\ target_size >= 1 =>
        primitives = Scaled(SimpleTree(target_size), supersample)

\* what an item draws on its canvas when it is rendered alone
OwnOps(it) ==
    IF it.kind = "tree"
    THEN LET t == SimpleTree(it.size * 4)
         IN << Op(t[1].op, t[1].xy, t[1].width, it.color, NoSource),
               Op(t[2].op, t[2].xy, t[2].width, it.color, NoSource) >>
    ELSE LET side == (HalfW * 100) \div 84
         IN << Op("paste", <<RInt((side - HalfW) \div 2), RInt((side - HalfW) \div 2)>>,
                  0, "", TracedObject) >>

\* the image an item returns when it is rendered alone
RenderAlone(it) ==
    [size |-> it.size,
     ops  |-> << Op("resize", <<>>, 0, "",
                    [size |-> IF it.kind = "tree" THEN it.size * 4
                              ELSE (HalfW * 100) \div 84,
                     ops  |-> OwnOps(it)]) >>]

\* C16: renders share no mutable state: every item of a batch creates its own
\* canvas and draws only on it (the shared traced image is never changed), so
\* whatever the interleaving of the items' steps, the image each item returns
\* is the one it returns when rendered alone.
C16_NoSharedState ==
    /\ \A i \in DOMAIN batch :
          batch[i].pc = "done" => heap[batch[i].out] = RenderAlone(batch[i])
    /\ \A i, j \in DOMAIN batch :
          i # j /\ batch[i].img # 0 /\ batch[j].img # 0 =>
              /\ batch[i].img # batch[j].img
              /\ batch[i].img # batch[j].out
    /\ heap # <<>> => heap[1] = TracedObject

\* a batch of a tree render and a clean_and_resize call whose steps were
\* interleaved: both canvases were created before either result, and the
\* item that started last finished first
C16_Witness ==
    /\ Len(batch) >= 2
    /\ \A i \in DOMAIN batch : batch[i].pc = "done"
    /\ \E i, j \in DOMAIN batch :
          /\ batch[i].kind = "tree" /\ batch[j].kind = "trace"
          /\ batch[i].img < batch[j].img
          /\ batch[j].img < batch[j].out
          /\ batch[j].out < batch[i].out

====
